---- MODULE Spec2Model ----
(***************************************************************************)
(* Strands Agent API (main.py): one FastAPI process, one event loop, one   *)
(* process-wide agent singleton.  Handlers are "async def" coroutines that *)
(* call the agent synchronously, so a handler occupies the event loop from *)
(* dispatch until it has produced its response.                            *)
(***************************************************************************)
EXTENDS Integers, Sequences, FiniteSets, TLC

(* ------------------------------ bounds --------------------------------- *)
NumReq == 2
MaxMsgs == 2

Requests == 1..NumReq

(* ---------------------------- Python values ---------------------------- *)
\* A str used as text is a tuple of one-character strings.
Hi == <<"h", "i">>
Padded == <<" ", "a", " ", "\t", "\n", "b", "c", " ">>
Contents == {<< >>, Hi, Padded}

PyNone == [type |-> "NoneType", value |-> ""]
PyStr(s) == [type |-> "str", value |-> s]
Omitted == [type |-> "omitted", value |-> ""]

\* role is any str; the code tells "user" from the rest.
Roles == {"user", "system", "assistant"}
Message == [role : Roles, content : Contents]
MessageLists == UNION {[1..n -> Message] : n \in 0..MaxMsgs}

\* Bodies the request schemas accept.
ChatBodies == [message : Contents, session_id : {Omitted, PyNone, PyStr("s1")}]
OpenAIBodies == [model : {"strands-agent"}, messages : MessageLists]

\* What the agent library can hand back: a result object, or an exception.
AgentResults == [text : Contents]
AgentErrors == {"model timeout", "rate limited"}

(* ----------------------------- str.split() ----------------------------- *)
Whitespace == {" ", "\t", "\n"}

Min(S) == CHOOSE x \in S : \A y \in S : x <= y

\* Length of the run of non-whitespace characters s starts with.
WordLen(s) ==
    LET stops == {i \in 1..Len(s) : s[i] \in Whitespace}
    IN  IF stops = {} THEN Len(s) ELSE Min(stops) - 1

RECURSIVE split(_)
split(s) ==
    IF s = << >> THEN << >>
    ELSE IF Head(s) \in Whitespace THEN split(Tail(s))
    ELSE <<SubSeq(s, 1, WordLen(s))>> \o split(SubSeq(s, WordLen(s) + 1, Len(s)))

\* str(result) of an agent result.
str(result) == result.text

(* ----------------------------- exceptions ------------------------------ *)
HTTPException(status_code, detail) ==
    [cls |-> "HTTPException", status_code |-> status_code, detail |-> detail]
AgentException(msg) ==
    [cls |-> "Exception", status_code |-> 0, detail |-> msg]
NoException == [cls |-> "", status_code |-> 0, detail |-> ""]

\* str(e)
StrExc(e) ==
    IF e.cls = "HTTPException"
    THEN ToString(e.status_code) \o ": " \o e.detail
    ELSE e.detail

\* "except Exception as e: raise HTTPException(500, f'Agent error: {str(e)}')"
\* HTTPException derives from Exception, so the clause catches it as well.
ExceptException(e) == HTTPException(500, "Agent error: " \o StrExc(e))

(* ------------------------------- state --------------------------------- *)
VARIABLES
    phase,           \* lifespan: "created", "started", "failed", "stopped"
    agent_instance,  \* the global: "None" or "Agent"
    pc,              \* per request: "new", "pending", "running", "calling", "done"
    calls,           \* per request: agent invocations made on its behalf
    nresp,           \* per request: HTTP responses sent
    frame,           \* the handler the event loop is running, with its locals
    response         \* the response the loop is sending: the last handler's

vars == <<phase, agent_instance, pc, calls, nresp, frame, response>>

GetEndpoints == {"root", "health", "tools", "models"}
ChatEndpoints == {"chat", "chat_simple", "completions"}

NoFrame ==
    [rid |-> 0, endpoint |-> "", request |-> << >>, call |-> << >>,
     agent |-> "none", result |-> [text |-> << >>], exc |-> NoException]

NoResponse == [rid |-> 0, endpoint |-> "", status |-> 0, json |-> << >>]

Init ==
    /\ phase = "created"
    /\ agent_instance = "None"
    /\ pc = [r \in Requests |-> "new"]
    /\ calls = [r \in Requests |-> 0]
    /\ nresp = [r \in Requests |-> 0]
    /\ frame = NoFrame
    /\ response = NoResponse

(* ------------------------------ lifespan ------------------------------- *)
\* Variant: handlers run as plain "def" routes, in a thread pool.
LoopFree_threads == TRUE

\* The loop runs one coroutine at a time, and no handler awaits: a handler
\* keeps the loop from its first line to its response, the agent call
\* included.
LoopFree == \A r \in Requests : pc[r] \notin {"running", "calling"}

Serving == phase \in {"created", "started"}

\* lifespan up to the yield: Agent(...) constructed and stored.
lifespan ==
    /\ phase = "created"
    /\ LoopFree
    /\ phase' = "started"
    /\ agent_instance' = "Agent"
    /\ UNCHANGED <<pc, calls, nresp, frame, response>>

\* Agent(...) throws: startup fails, nothing is stored, nothing is served.
lifespan_fails ==
    /\ phase = "created"
    /\ LoopFree
    /\ phase' = "failed"
    /\ UNCHANGED <<agent_instance, pc, calls, nresp, frame, response>>

\* lifespan after the yield: prints, leaves the global alone.
shutdown ==
    /\ phase = "started"
    /\ LoopFree
    /\ phase' = "stopped"
    /\ UNCHANGED <<agent_instance, pc, calls, nresp, frame, response>>

(* ------------------------------ requests ------------------------------- *)
\* A client sends request r; it waits for the event loop.
Arrive(r) ==
    /\ Serving
    /\ pc[r] = "new"
    /\ \A q \in Requests : q < r => pc[q] # "new"
    /\ pc' = [pc EXCEPT ![r] = "pending"]
    /\ UNCHANGED <<phase, agent_instance, calls, nresp, frame, response>>

\* The bodies each route's schema accepts.
Bodies(endpoint) ==
    CASE endpoint = "chat" -> ChatBodies
      [] endpoint = "chat_simple" -> [message : Contents]
      [] endpoint = "completions" -> OpenAIBodies
      [] OTHER -> {<< >>}

\* The loop takes up request r: the route is matched and the body parsed
\* into the handler's argument; the handler runs next.
Dispatch(r) ==
    /\ Serving
    /\ pc[r] = "pending"
    /\ LoopFree
    /\ \E endpoint \in GetEndpoints \cup ChatEndpoints :
         \E body \in Bodies(endpoint) :
           frame' = [NoFrame EXCEPT !.rid = r, !.endpoint = endpoint,
                                    !.request = body]
    /\ pc' = [pc EXCEPT ![r] = "running"]
    /\ response' = NoResponse
    /\ UNCHANGED <<phase, agent_instance, calls, nresp>>

\* The handler of r is entered.
Entered(r, endpoint) ==
    /\ pc[r] = "running"
    /\ frame.rid = r
    /\ frame.endpoint = endpoint

\* The handler of r ends with a response: status and JSON body.
Respond(r, status, json) ==
    /\ response' = [rid |-> r, endpoint |-> frame.endpoint,
                    status |-> status, json |-> json]
    /\ frame' = NoFrame
    /\ pc' = [pc EXCEPT ![r] = "done"]
    /\ nresp' = [nresp EXCEPT ![r] = @ + 1]
    /\ calls' = calls

\* An HTTPException leaving the handler becomes {"detail": ...}.
RespondError(r, e) == Respond(r, e.status_code, [detail |-> e.detail])

\* Variant: the guard on the singleton is left out.
AgentMissing_unchecked == FALSE

\* "if not agent_instance"
AgentMissing == agent_instance = "None"

\* agent_instance(prompt, **kwargs): the handler blocks inside the call.
\* live is what the handler still reads of its request after the call.
Invoke(r, live, prompt, kwargs) ==
    /\ frame' = [frame EXCEPT !.agent = "busy", !.request = live,
                     !.call = <<[prompt |-> prompt, kwargs |-> kwargs]>>]
    /\ pc' = [pc EXCEPT ![r] = "calling"]
    /\ calls' = [calls EXCEPT ![r] = @ + 1]
    /\ nresp' = nresp
    /\ response' = response

\* Variant: the readiness test is inverted.
HealthBody_inverted ==
    [status |-> "healthy", version |-> "1.0.0",
     agent_ready |-> (agent_instance = "None")]

HealthBody ==
    [status |-> "healthy", version |-> "1.0.0",
     agent_ready |-> (agent_instance # "None")]

root(r) ==
    /\ Entered(r, "root")
    /\ Respond(r, 200, HealthBody)
    /\ UNCHANGED <<phase, agent_instance>>

health(r) ==
    /\ Entered(r, "health")
    /\ Respond(r, 200, HealthBody)
    /\ UNCHANGED <<phase, agent_instance>>

ToolList ==
    <<[name |-> "calculator",
       description |-> "Perform mathematical calculations and evaluate expressions"],
      [name |-> "current_time", description |-> "Get the current date and time"],
      [name |-> "send_sms", description |-> "Send SMS messages via Twilio"]>>

list_tools(r) ==
    /\ Entered(r, "tools")
    /\ Respond(r, 200, ToolList)
    /\ UNCHANGED <<phase, agent_instance>>

\* "created" is the clock reading; it plays no part in the model.
ModelList ==
    [object |-> "list",
     data |-> <<[id |-> "strands-agent", object |-> "model",
                 owned_by |-> "strands", root |-> "strands-agent"]>>]

list_models(r) ==
    /\ Entered(r, "models")
    /\ Respond(r, 200, ModelList)
    /\ UNCHANGED <<phase, agent_instance>>

(* --------------------------- the agent library ------------------------- *)
\* The call in progress comes back with a result ...
AgentReturns ==
    /\ frame.agent = "busy"
    /\ \E result \in AgentResults :
         frame' = [frame EXCEPT !.agent = "returned", !.result = result]
    /\ UNCHANGED <<phase, agent_instance, pc, calls, nresp, response>>

\* ... or raises ...
AgentRaises ==
    /\ frame.agent = "busy"
    /\ \E msg \in AgentErrors :
         frame' = [frame EXCEPT !.agent = "raised", !.exc = AgentException(msg)]
    /\ UNCHANGED <<phase, agent_instance, pc, calls, nresp, response>>

\* ... or never comes back: nothing bounds the call.
AgentHangs ==
    /\ frame.agent = "busy"
    /\ frame' = [frame EXCEPT !.agent = "hung"]
    /\ UNCHANGED <<phase, agent_instance, pc, calls, nresp, response>>

\* Variant: a timeout lets the handler go on although the call hangs.
CallFinished_timeout(f) == f.agent \in {"returned", "raised", "hung"}

\* The blocked handler of r goes on once its call has come back.
CallFinished(f) == f.agent \in {"returned", "raised"}

Resumable(r, endpoint) ==
    /\ pc[r] = "calling"
    /\ frame.rid = r
    /\ frame.endpoint = endpoint
    /\ CallFinished(frame)

(* ------------------------------ POST /chat ----------------------------- *)
\* ChatRequest: session_id: Optional[str] = "default"
ChatRequest(body) ==
    [message |-> body.message,
     session_id |-> IF body.session_id = Omitted THEN PyStr("default")
                    ELSE body.session_id]

\* response_model=ChatResponse: response: str, session_id: str
ChatResponseValid(json) == json.session_id.type = "str"

\* What the framework answers when the returned value fails its model.
ServerError == [detail |-> "Internal Server Error"]

chat(r) ==
    /\ Entered(r, "chat")
    /\ LET request == ChatRequest(frame.request)
       IN  IF AgentMissing
           THEN RespondError(r, HTTPException(503, "Agent not initialized"))
           ELSE Invoke(r, frame.request, request.message,
                       {<<"session_id", request.session_id>>})
    /\ UNCHANGED <<phase, agent_instance>>

chat_resume(r) ==
    /\ Resumable(r, "chat")
    /\ IF frame.agent = "returned"
       THEN LET json == [response |-> str(frame.result),
                         session_id |-> ChatRequest(frame.request).session_id]
            IN  IF ChatResponseValid(json)
                THEN Respond(r, 200, json)
                ELSE Respond(r, 500, ServerError)
       ELSE RespondError(r, ExceptException(frame.exc))
    /\ UNCHANGED <<phase, agent_instance>>

(* --------------------------- POST /chat/simple ------------------------- *)
chat_simple(r) ==
    /\ Entered(r, "chat_simple")
    /\ IF AgentMissing
       THEN RespondError(r, HTTPException(503, "Agent not initialized"))
       ELSE Invoke(r, frame.request, frame.request.message, {})
    /\ UNCHANGED <<phase, agent_instance>>

\* Variant: a failed call is tried once more.
chat_simple_retry(r) ==
    /\ Resumable(r, "chat_simple")
    /\ IF frame.agent = "returned"
       THEN Respond(r, 200, [response |-> str(frame.result)])
       ELSE Invoke(r, frame.request, frame.request.message, {})
    /\ UNCHANGED <<phase, agent_instance>>

chat_simple_resume(r) ==
    /\ Resumable(r, "chat_simple")
    /\ IF frame.agent = "returned"
       THEN Respond(r, 200, [response |-> str(frame.result)])
       ELSE RespondError(r, ExceptException(frame.exc))
    /\ UNCHANGED <<phase, agent_instance>>

(* ----------------------- POST /v1/chat/completions --------------------- *)
\* [msg for msg in request.messages if msg.role == "user"]
user_messages(messages) == SelectSeq(messages, LAMBDA msg : msg.role = "user")

\* Variant: user_messages[0].content
first_user_message(messages) == user_messages(messages)[1].content

\* user_messages[-1].content
last_message(messages) ==
    user_messages(messages)[Len(user_messages(messages))].content

\* Variant: len(text) in place of len(text.split()).
usage_chars(prompt, response_text) ==
    [prompt_tokens |-> Len(prompt),
     completion_tokens |-> Len(response_text),
     total_tokens |-> Len(prompt) + Len(response_text)]

usage(prompt, response_text) ==
    [prompt_tokens |-> Len(split(prompt)),
     completion_tokens |-> Len(split(response_text)),
     total_tokens |-> Len(split(prompt)) + Len(split(response_text))]

\* id and created come from uuid4 and the clock; they play no part here.
Completion(model, prompt, response_text) ==
    [object |-> "chat.completion",
     model |-> model,
     choices |-> <<[index |-> 0,
                    message |-> [role |-> "assistant", content |-> response_text],
                    finish_reason |-> "stop"]>>,
     usage |-> usage(prompt, response_text)]

openai_chat_completions(r) ==
    /\ Entered(r, "completions")
    /\ IF AgentMissing
       THEN RespondError(r, HTTPException(503, "Agent not initialized"))
       ELSE IF user_messages(frame.request.messages) = << >>
       THEN \* raised inside the try block, so the except clause gets it
            RespondError(r,
                ExceptException(HTTPException(400, "No user message found")))
       ELSE \* request.messages and user_messages are not read again
            Invoke(r, [model |-> frame.request.model],
                   last_message(frame.request.messages),
                   {<<"session_id", PyStr("openai-compat")>>})
    /\ UNCHANGED <<phase, agent_instance>>

openai_chat_completions_resume(r) ==
    /\ Resumable(r, "completions")
    /\ IF frame.agent = "returned"
       THEN Respond(r, 200,
                    Completion(frame.request.model, frame.call[1].prompt,
                               str(frame.result)))
       ELSE RespondError(r, ExceptException(frame.exc))
    /\ UNCHANGED <<phase, agent_instance>>

(* --------------------------- specifications ---------------------------- *)
Resume(r) ==
    \/ chat_resume(r)
    \/ chat_simple_resume(r)
    \/ openai_chat_completions_resume(r)

Next ==
    \/ lifespan
    \/ lifespan_fails
    \/ shutdown
    \/ AgentReturns
    \/ AgentRaises
    \/ AgentHangs
    \/ \E r \in Requests : Arrive(r)
    \/ \E r \in Requests : Dispatch(r)
    \/ \E r \in Requests : root(r)
    \/ \E r \in Requests : health(r)
    \/ \E r \in Requests : list_tools(r)
    \/ \E r \in Requests : list_models(r)
    \/ \E r \in Requests : chat(r)
    \/ \E r \in Requests : chat_simple(r)
    \/ \E r \in Requests : openai_chat_completions(r)
    \/ \E r \in Requests : chat_resume(r)
    \/ \E r \in Requests : chat_simple_resume(r)
    \/ \E r \in Requests : openai_chat_completions_resume(r)

Spec == Init /\ [][Next]_vars

\* A call that has come back is followed by the rest of its handler: the
\* code between the call and the return waits for nothing.
FairSpec == Spec /\ \A r \in Requests : WF_vars(Resume(r))

(* ------------------------------ properties ----------------------------- *)
\* The handler of r takes its first step (to a response or into the call).
EntersHandler(r) == pc[r] = "running" /\ frame.rid = r /\ pc'[r] # "running"

\* Request r is answered in this step; response' is the answer.
Answered(r) == nresp'[r] = nresp[r] + 1 /\ frame.rid = r /\ response'.rid = r

NoUserMessage(messages) ==
    \A i \in 1..Len(messages) : messages[i].role # "user"

\* The content of the message with role "user" that has the largest index.
LastUserContent(messages) ==
    LET idx == {i \in 1..Len(messages) : messages[i].role = "user"}
    IN  messages[CHOOSE i \in idx : \A j \in idx : j <= i].content

\* Whitespace-separated tokens: the positions where a token starts.
TokenCount(s) ==
    Cardinality({i \in 1..Len(s) :
                    s[i] \notin Whitespace /\ (i = 1 \/ s[i - 1] \in Whitespace)})

OpenAISession == {<<"session_id", PyStr("openai-compat")>>}

\* C1: with the agent initialised, a completions request without a message
\* of role "user" is answered 400 and the agent is not invoked.
C1_NoUserMessageIs400 ==
    [][\A r \in Requests :
        (/\ EntersHandler(r)
         /\ frame.endpoint = "completions"
         /\ agent_instance = "Agent"
         /\ NoUserMessage(frame.request.messages))
        => (/\ response'.rid = r
            /\ response'.status = 400
            /\ calls'[r] = 0)]_vars

\* C2: while the singleton is absent, each of the three chat routes answers
\* 503 and does not invoke the agent, whatever the body is.
C2_AbsentAgentIs503 ==
    [][\A r \in Requests :
        (/\ EntersHandler(r)
         /\ frame.endpoint \in ChatEndpoints
         /\ agent_instance = "None")
        => (/\ pc'[r] = "done"
            /\ nresp'[r] = 1
            /\ response'.rid = r
            /\ response'.status = 503
            /\ response'.json = [detail |-> "Agent not initialized"]
            /\ calls'[r] = 0)]_vars

C2_Witness ==
    /\ agent_instance = "None"
    /\ response.endpoint = "completions"
    /\ response.status = 503
    /\ \E q \in Requests : q # response.rid /\ pc[q] = "done"

\* C3: once startup has completed, GET / and GET /health answer healthy,
\* 1.0.0, agent_ready true, whatever was served before; the singleton is
\* written by startup only.
C3_HealthAfterStartup ==
    [][/\ \A r \in Requests :
            (/\ EntersHandler(r)
             /\ frame.endpoint \in {"root", "health"}
             /\ phase = "started")
            => (/\ response'.rid = r
                /\ response'.status = 200
                /\ response'.json = [status |-> "healthy", version |-> "1.0.0",
                                     agent_ready |-> TRUE])
       /\ (agent_instance' # agent_instance
            => phase = "created" /\ phase' = "started" /\ agent_instance = "None")
      ]_vars

C3_Witness ==
    /\ phase = "started"
    /\ response.endpoint = "health"
    /\ response.status = 200
    /\ response.json.agent_ready
    /\ \E q \in Requests : q # response.rid /\ pc[q] = "done" /\ calls[q] = 1

\* C4: in a successful completions response prompt_tokens is the number of
\* whitespace-separated tokens of the selected message (the last user
\* message, held unchanged across the call), completion_tokens that of the
\* stringified result, and total_tokens their sum.
C4_UsageCounts ==
    [][\A r \in Requests :
        /\ (EntersHandler(r) /\ frame.endpoint = "completions"
               /\ pc'[r] = "calling")
           => frame'.call[1].prompt = LastUserContent(frame.request.messages)
        /\ (pc[r] = "calling" /\ pc'[r] = "calling") => frame'.call = frame.call
        /\ (/\ Answered(r)
            /\ frame.endpoint = "completions"
            /\ response'.status = 200)
           => LET u == response'.json.usage
              IN  /\ u.prompt_tokens = TokenCount(frame.call[1].prompt)
                  /\ u.completion_tokens =
                         TokenCount(response'.json.choices[1].message.content)
                  /\ response'.json.choices[1].message.content = frame.result.text
                  /\ u.total_tokens = u.prompt_tokens + u.completion_tokens]_vars

C4_Witness ==
    /\ response.endpoint = "completions"
    /\ response.status = 200
    /\ response.json.usage.prompt_tokens = 2
    /\ response.json.usage.completion_tokens = 1
    /\ response.json.usage.total_tokens = 3

\* C5: a completions request holding a user message invokes the agent with
\* the content of the last message of role "user" and with the session
\* identifier "openai-compat".
C5_LastUserMessage ==
    /\ [](frame.endpoint = "completions" /\ frame.call # << >>
            => frame.call[1].kwargs = OpenAISession)
    /\ [][\A r \in Requests :
            (/\ EntersHandler(r)
             /\ frame.endpoint = "completions"
             /\ agent_instance = "Agent"
             /\ ~NoUserMessage(frame.request.messages))
            => (/\ pc'[r] = "calling"
                /\ frame'.call =
                     <<[prompt |-> LastUserContent(frame.request.messages),
                        kwargs |-> OpenAISession]>>)]_vars

C5_Witness ==
    /\ frame.endpoint = "completions"
    /\ frame.agent = "busy"
    /\ frame.call = <<[prompt |-> Padded, kwargs |-> OpenAISession]>>
    /\ \E q \in Requests : q # frame.rid /\ pc[q] = "done" /\ calls[q] = 1

\* C6: every answer of a chat route falls in the taxonomy: singleton absent
\* 503, no user message (completions) 400, agent call raised 500 carrying
\* the exception's message, success otherwise.
C6_ErrorTaxonomy ==
    [][\A r \in Requests :
        (Answered(r) /\ frame.endpoint \in ChatEndpoints)
        => IF agent_instance = "None"
           THEN response'.status = 503
           ELSE IF frame.endpoint = "completions"
                   /\ NoUserMessage(frame.request.messages)
           THEN response'.status = 400
           ELSE IF frame.agent = "raised"
           THEN /\ response'.status = 500
                /\ response'.json = [detail |-> "Agent error: " \o frame.exc.detail]
           ELSE response'.status = 200]_vars

\* C7: a POST /chat whose agent call returns is answered with the
\* stringified result and the request's session identifier, a string,
\* "default" when omitted, the identifier the agent was called with; for
\* every session_id the request schema accepts.
C7_ChatEchoesSession ==
    [][\A r \in Requests :
        (/\ Answered(r)
         /\ frame.endpoint = "chat"
         /\ frame.agent = "returned")
        => LET sid == IF frame.request.session_id = Omitted
                      THEN PyStr("default")
                      ELSE frame.request.session_id
           IN  /\ response'.status = 200
               /\ response'.json.response = frame.result.text
               /\ response'.json.session_id = sid
               /\ response'.json.session_id.type = "str"
               /\ frame.call = <<[prompt |-> frame.request.message,
                                  kwargs |-> {<<"session_id", sid>>}]>>]_vars

\* C8: a request makes at most one agent call, none after a failure; a chat
\* request makes exactly one when the agent is initialised and the input
\* check passes; the GET routes make none.
C8_OneCallPerRequest ==
    /\ [](\A r \in Requests : calls[r] <= 1)
    /\ [][\A r \in Requests :
            /\ calls'[r] # calls[r]
                 => EntersHandler(r) /\ frame.endpoint \in ChatEndpoints
            /\ (/\ EntersHandler(r)
                /\ frame.endpoint \in ChatEndpoints
                /\ agent_instance = "Agent"
                /\ ~(/\ frame.endpoint = "completions"
                     /\ NoUserMessage(frame.request.messages)))
                 => calls'[r] = 1]_vars

C8_Witness ==
    \E r \in Requests :
        /\ pc[r] = "done"
        /\ calls[r] = 1
        /\ response.rid = r
        /\ response.endpoint = "chat_simple"
        /\ response.status = 500

\* C9: a request whose agent call never returns is never answered; a
\* request whose agent call returns or raises is eventually answered, once,
\* with a success or a 500.
C9_NoTimeout ==
    /\ [](\A r \in Requests : nresp[r] <= 1)
    /\ [][/\ frame.agent = "hung" => frame'.agent = "hung" /\ nresp' = nresp
          /\ \A r \in Requests :
                (Answered(r) /\ pc[r] = "calling")
                => (/\ frame.agent \in {"returned", "raised"}
                    /\ response'.status \in {200, 500})]_vars
    /\ \A r \in Requests :
          (pc[r] = "calling" /\ frame.rid = r
             /\ frame.agent \in {"returned", "raised"})
          ~> (pc[r] = "done" /\ nresp[r] = 1)

C9_Witness ==
    \E r, q \in Requests :
        /\ r # q
        /\ frame.rid = r
        /\ frame.agent = "hung"
        /\ nresp[r] = 0
        /\ pc[q] = "done"
        /\ calls[q] = 1
        /\ nresp[q] = 1

\* C10: at most one request is inside the agent call at any time, and while
\* a request is inside the call no other request is taken up or answered.
C10_CallsNeverOverlap ==
    /\ [](Cardinality({r \in Requests : pc[r] = "calling"}) <= 1)
    /\ [][\A r, q \in Requests :
            (r # q /\ pc[r] = "calling" /\ pc'[r] = "calling")
            => (/\ nresp'[q] = nresp[q]
                /\ pc[q] = "pending" => pc'[q] = "pending")]_vars

C10_Witness ==
    \E r, q \in Requests :
        /\ r # q
        /\ pc[r] = "calling"
        /\ frame.agent = "hung"
        /\ pc[q] = "pending"

====
